---- MODULE Spec2Model ----
(***************************************************************************)
(* The MicroStellar client handle (microstellar.go): a handle with an      *)
(* optional open multi-op transaction (ms.tx), the last transaction        *)
(* (ms.lastTx) and the last error (ms.lastErr).  Every public method is    *)
(* one action.  Tx, Options and the validity predicates live in files of   *)
(* the package that are not part of the sources at hand; they are modelled *)
(* from the specification and kept apart in the first section.             *)
(***************************************************************************)
EXTENDS Integers, Sequences, FiniteSets, TLC

VARIABLES tx, lastTx, lastIsTx, lastErr, fake, call, ret, out, events, sessionCalls,
          bound, other

vars == <<tx, lastTx, lastIsTx, lastErr, fake, call, ret, out, events, sessionCalls,
          bound, other>>

\* tx, lastTx, lastErr, fake: the fields of the handle, a Tx pointer being the
\*   Tx it points to (NoTx for nil); lastIsTx: ms.lastTx and ms.tx point to the
\*   same Tx, so that a change made through one shows through the other
\* call, ret, out, events, sessionCalls: the last call made, what it returned,
\*   the signatures and network submissions it performed, and the operations
\*   built in the open session, for the properties to speak about
\* bound: the options Start bound to the open session
\* other: the fields of the program's second handle, the one that is not the
\*   receiver of the calls at the moment

-----------------------------------------------------------------------------
\* Bounds and input domains

\* most operations of one session transaction, in SpecSession and SpecPay
MaxOps == 2

\* most operations of one session transaction, in Spec
MaxOpsAll == 1

Seeds == {"S1", "S2"}
Addresses == {"G1"}
NoKey == ""
Nil == "nil"

\* second address-like arguments tried
TargetInputs == {"G1", "bad"}

NativeAsset == "XLM"
ValidAssets == {"XLM", "USD", "EUR"}
AssetInputs == {"USD", "BADASSET"}

-----------------------------------------------------------------------------
\* Options, Tx and validity predicates

ValidAddressOrSeed(s) == s \in Seeds \cup Addresses

ValidAddress(s) == s \in Addresses

AssetValidate(a) == a \in ValidAssets

\* Opts(): an empty bundle.  present = FALSE stands for "no bundle passed".
NoOptions ==
    [present |-> FALSE, signerSeeds |-> <<>>, memoText |-> "", isMultiOp |-> FALSE,
     multiOpSource |-> NoKey, sendAsset |-> "", path |-> <<>>, sourceAddress |-> NoKey]

Opts == [NoOptions EXCEPT !.present = TRUE]

WithSigner(o, seed) == [o EXCEPT !.signerSeeds = Append(@, seed)]

WithMemoText(o, text) == [o EXCEPT !.memoText = text]

WithAsset(o, asset) == [o EXCEPT !.sendAsset = asset]

Through(o, hops) == [o EXCEPT !.path = hops]

FindPathFrom(o, address) == [o EXCEPT !.sourceAddress = address]

MultiOp(o, source) == [o EXCEPT !.isMultiOp = TRUE, !.multiOpSource = source]

\* mergeOptions(options): the zero-or-one bundle folded into one Options value
mergeOptions(o) == IF o.present THEN o ELSE Opts

NoTx ==
    [nil |-> TRUE, isMultiOp |-> FALSE, options |-> NoOptions, ops |-> <<>>,
     signers |-> <<>>, signed |-> FALSE, submitted |-> FALSE, err |-> Nil]

NewTx == [NoTx EXCEPT !.nil = FALSE]

SetOptions(t, o) == [t EXCEPT !.options = o, !.isMultiOp = @ \/ o.isMultiOp]

WithOptions(t, o) == SetOptions(t, o)

\* Tx.Build: one more operation on the builder
TxBuild(t, op) == IF t.err # Nil THEN t ELSE [t EXCEPT !.ops = Append(@, op)]

\* the seeds a Tx signs with: the bundle's signers when it carries any, otherwise
\* the session source (multi-op) or the keys handed to Sign
SignerContext(t, keys) ==
    IF Len(t.options.signerSeeds) > 0 THEN t.options.signerSeeds
    ELSE IF t.isMultiOp THEN <<t.options.multiOpSource>>
    ELSE keys

CanSign(keys) == \A i \in 1..Len(keys) : keys[i] \in Seeds

TxSign(t, keys) ==
    IF t.err # Nil THEN t
    ELSE LET used == SignerContext(t, keys) IN
         IF CanSign(used) THEN [t EXCEPT !.signers = used, !.signed = TRUE]
         ELSE [t EXCEPT !.signers = used, !.err = "signing error"]

\* Tx.Submit: one round trip to the network, skipped once the Tx carries an error
TxSubmit(t, netOk) ==
    IF t.err # Nil THEN t
    ELSE IF netOk THEN [t EXCEPT !.submitted = TRUE]
    ELSE [t EXCEPT !.submitted = TRUE, !.err = "network error"]

\* Tx.Payload: sign with the transaction's own signer context and encode it
Encode(t) == [ops |-> t.ops, signatures |-> t.signers]

NoPayload == [ops |-> <<>>, signatures |-> <<>>]

TxPayload(t) ==
    LET s == TxSign(t, <<>>) IN
    [tx |-> s, payload |-> IF s.err = Nil THEN Encode(s) ELSE NoPayload, err |-> s.err]

\* what a call did to the world: the signatures and network submissions it made
SignEvent(t) == [e |-> "sign", keys |-> t.signers, ops |-> t.ops]

SubmitEvent(t) == [e |-> "submit", keys |-> t.signers, ops |-> t.ops]

Submissions(ev) == SelectSeq(ev, LAMBDA x : x.e = "submit")

Signings(ev) == SelectSeq(ev, LAMBDA x : x.e = "sign")

-----------------------------------------------------------------------------
\* Inputs of the calls

\* the option bundles tried on Start and on the plain operations
Bundles == {NoOptions, WithMemoText(Opts, "memo"), WithSigner(Opts, "S2")}

\* the bundles tried on Pay: the plain ones and the path-payment ones
PathBundles ==
    { Through(WithAsset(Opts, NativeAsset), <<"EUR">>),
      FindPathFrom(WithAsset(Opts, NativeAsset), "G1"),
      FindPathFrom(WithAsset(Opts, NativeAsset), "bad"),
      WithSigner(FindPathFrom(WithAsset(Opts, NativeAsset), "G1"), "S2"),
      FindPathFrom(Through(WithAsset(Opts, NativeAsset), <<"USD", "EUR">>), "bad") }

NoResult == [err |-> Nil, paths |-> <<>>]

\* what the path resolver may answer
FindResults ==
    { [err |-> "horizon error", paths |-> <<>>],
      [err |-> Nil, paths |-> <<>>],
      [err |-> Nil, paths |-> <<[Hops |-> <<"USD">>]>>],
      [err |-> Nil, paths |-> <<[Hops |-> <<"EUR", "USD">>], [Hops |-> <<"USD">>]>>] }

Operation(kind, source) == [kind |-> kind, source |-> source, sendAsset |-> "", path |-> <<>>]

PathPayment(source, sendAsset, hops) ==
    [kind |-> "Pay", source |-> source, sendAsset |-> sendAsset, path |-> hops]

\* the record of a call: its name, its source argument, its bundle, whether a
\* session was open when it was made, and what the path resolver answered
\* when the call queried it
NoEnvelope == [valid |-> FALSE, env |-> NoPayload]

Call(name, source, o) ==
    [name |-> name, source |-> source, options |-> o, session |-> ~tx.nil,
     queried |-> FALSE, found |-> NoResult,
     keyLen |-> 0, valLen |-> 0, b64Tx |-> NoEnvelope, seeds |-> <<>>]

-----------------------------------------------------------------------------
\* microstellar.go

\* getTx that forgets the open session
getTx_AlwaysNew == NewTx

getTx == IF ~tx.nil THEN tx ELSE NewTx

success == [lastErr |-> Nil, ret |-> Nil]

\* err that returns the error without saving it
err_NotSaved(e) == [lastErr |-> lastErr, ret |-> e]

err(e) == [lastErr |-> e, ret |-> e]

errorf(msg) == [lastErr |-> msg, ret |-> msg]

wrapf(e, msg) == [lastErr |-> msg, ret |-> msg]

Err == lastErr

\* the signing and the submission a Sign-then-Submit pair performs on t
Effects(t, s, u) ==
    (IF t.err = Nil THEN <<SignEvent(s)>> ELSE <<>>)
        \o (IF s.err = Nil THEN <<SubmitEvent(u)>> ELSE <<>>)

\* signAndSubmit that submits once more when the network refuses
signAndSubmit_Retry(t, signers, netOk) ==
    LET s == IF ~t.isMultiOp THEN TxSign(t, signers) ELSE t
        u == IF ~t.isMultiOp THEN TxSubmit(s, netOk) ELSE t
        again == IF u.err = "network error" THEN <<SubmitEvent(u)>> ELSE <<>>
    IN [tx |-> u, lastTx |-> u, result |-> err(u.err),
        events |-> IF ~t.isMultiOp THEN Effects(t, s, u) \o again ELSE <<>>]

\* signAndSubmit that does not save the transaction as the last one
signAndSubmit_ForgetsLast(t, signers, netOk) ==
    LET s == IF ~t.isMultiOp THEN TxSign(t, signers) ELSE t
        u == IF ~t.isMultiOp THEN TxSubmit(s, netOk) ELSE t
    IN [tx |-> u, lastTx |-> lastTx, result |-> err(u.err),
        events |-> IF ~t.isMultiOp THEN Effects(t, s, u) ELSE <<>>]

signAndSubmit(t, signers, netOk) ==
    LET s == IF ~t.isMultiOp THEN TxSign(t, signers) ELSE t
        u == IF ~t.isMultiOp THEN TxSubmit(s, netOk) ELSE t
    IN [tx |-> u, lastTx |-> u, result |-> err(u.err),
        events |-> IF ~t.isMultiOp THEN Effects(t, s, u) ELSE <<>>]

\* getTx hands out a pointer: t is the Tx it points to after the call changed
\* it, which shows through ms.tx when a session is open (getTx returned ms.tx)
\* and through ms.lastTx when that points to the session's Tx as well
StoreTx(t) == IF ~tx.nil THEN t ELSE tx

StoreLast(t) == IF lastIsTx THEN t ELSE lastTx

\* the operations built in the open session so far; kept through the call that
\* closes the session, empty otherwise
SessionCalls == IF ~tx.nil THEN sessionCalls ELSE <<>>

\* the options bound at Start, kept as long as sessionCalls
Bound == IF ~tx.nil THEN bound ELSE NoOptions

\* return r from call c with the handle's transactions untouched
Reject(c, r) ==
    /\ lastErr' = r.lastErr
    /\ ret' = r.ret
    /\ call' = c
    /\ out' = NoPayload
    /\ events' = <<>>
    /\ sessionCalls' = SessionCalls
    /\ bound' = Bound
    /\ UNCHANGED <<tx, lastTx, lastIsTx, fake, other>>

\* an operation that drops its bundle
ApplyOptions_Skipped(t, o) == t

\* if len(options) > 0 { tx.SetOptions(options[0]) }
ApplyOptions(t, o) == IF o.present THEN SetOptions(t, o) ELSE t

\* return r from call c after the options were set on the transaction t
RejectBuilt(c, t, r) ==
    /\ tx' = StoreTx(t)
    /\ lastTx' = StoreLast(t)
    /\ lastErr' = r.lastErr
    /\ ret' = r.ret
    /\ call' = c
    /\ out' = NoPayload
    /\ events' = <<>>
    /\ sessionCalls' = SessionCalls
    /\ bound' = Bound
    /\ UNCHANGED <<lastIsTx, fake, other>>

\* tx.Build(sourceAccount(source), op); return ms.signAndSubmit(tx, source)
BuildAndSubmit(c, t, op, netOk) ==
    LET b == TxBuild(t, op)
        r == signAndSubmit(b, <<op.source>>, netOk)
    IN /\ tx' = StoreTx(r.tx)
       /\ lastTx' = r.lastTx
       /\ lastIsTx' = ~tx.nil
       /\ lastErr' = r.result.lastErr
       /\ ret' = r.result.ret
       /\ call' = c
       /\ out' = NoPayload
       /\ events' = r.events
       /\ sessionCalls' = IF ~tx.nil THEN Append(sessionCalls, op) ELSE <<>>
       /\ bound' = Bound
       /\ UNCHANGED <<fake, other>>

\* the fields of a handle as New leaves them
NewHandle(isFake) ==
    [tx |-> NoTx, lastTx |-> NoTx, lastIsTx |-> FALSE, lastErr |-> Nil, fake |-> isFake,
     ret |-> Nil, sessionCalls |-> <<>>, bound |-> NoOptions]

Init ==
    /\ tx = NoTx
    /\ lastTx = NoTx
    /\ lastIsTx = FALSE
    /\ lastErr = Nil
    /\ fake \in BOOLEAN
    /\ call = [name |-> "New", source |-> NoKey, options |-> NoOptions, session |-> FALSE,
              queried |-> FALSE, found |-> NoResult,
              keyLen |-> 0, valLen |-> 0, b64Tx |-> NoEnvelope, seeds |-> <<>>]
    /\ ret = Nil
    /\ out = NoPayload
    /\ events = <<>>
    /\ sessionCalls = <<>>
    /\ bound = NoOptions
    /\ other = NewHandle(fake)

\* Start on a handle whose open transaction is one for all handles
Start_Shared(sourceSeed, o) ==
    /\ tx' = WithOptions(NewTx, MultiOp(mergeOptions(o), sourceSeed))
    /\ lastIsTx' = FALSE
    /\ call' = Call("Start", sourceSeed, o)
    /\ out' = NoPayload
    /\ events' = <<>>
    /\ sessionCalls' = <<>>
    /\ bound' = MultiOp(mergeOptions(o), sourceSeed)
    /\ other' = [other EXCEPT !.tx = tx', !.lastIsTx = FALSE, !.sessionCalls = <<>>,
                              !.bound = bound']
    /\ UNCHANGED <<lastTx, lastErr, ret, fake>>

Start(sourceSeed, o) ==
    /\ tx' = WithOptions(NewTx, MultiOp(mergeOptions(o), sourceSeed))
    /\ lastIsTx' = FALSE
    /\ call' = Call("Start", sourceSeed, o)
    /\ out' = NoPayload
    /\ events' = <<>>
    /\ sessionCalls' = <<>>
    /\ bound' = MultiOp(mergeOptions(o), sourceSeed)
    /\ UNCHANGED <<lastTx, lastErr, ret, fake, other>>

\* Submit without the isMultiOp check
Submit_Unchecked(netOk) ==
    LET t == getTx
        s == TxSign(t, <<>>)
        u == TxSubmit(s, netOk)
        r == err(u.err)
    IN /\ lastTx' = u
       /\ tx' = NoTx
       /\ lastIsTx' = FALSE
       /\ lastErr' = r.lastErr
       /\ ret' = r.ret
       /\ call' = Call("Submit", NoKey, NoOptions)
       /\ out' = NoPayload
       /\ events' = Effects(t, s, u)
       /\ UNCHANGED <<fake, sessionCalls, bound, other>>

\* Submit that leaves ms.tx in place
Submit_KeepsTx(netOk) ==
    LET t == getTx
        c == Call("Submit", NoKey, NoOptions)
    IN IF ~t.isMultiOp
       THEN Reject(c, errorf("can't submit, not a multi-op transaction"))
       ELSE LET s == TxSign(tx, <<>>)
                u == TxSubmit(s, netOk)
                r == err(u.err)
            IN /\ lastTx' = u
               /\ tx' = u
               /\ lastIsTx' = TRUE
               /\ lastErr' = r.lastErr
               /\ ret' = r.ret
               /\ call' = c
               /\ out' = NoPayload
               /\ events' = Effects(tx, s, u)
               /\ UNCHANGED <<fake, sessionCalls, bound, other>>

\* Submit that sends the transaction without signing it
Submit_Unsigned(netOk) ==
    LET t == getTx
        c == Call("Submit", NoKey, NoOptions)
    IN IF ~t.isMultiOp
       THEN Reject(c, errorf("can't submit, not a multi-op transaction"))
       ELSE LET u == TxSubmit(tx, netOk)
                r == err(u.err)
            IN /\ lastTx' = u
               /\ tx' = NoTx
               /\ lastIsTx' = FALSE
               /\ lastErr' = r.lastErr
               /\ ret' = r.ret
               /\ call' = c
               /\ out' = NoPayload
               /\ events' = <<SubmitEvent(u)>>
               /\ UNCHANGED <<fake, sessionCalls, bound, other>>

Submit(netOk) ==
    LET t == getTx
        c == Call("Submit", NoKey, NoOptions)
    IN IF ~t.isMultiOp
       THEN Reject(c, errorf("can't submit, not a multi-op transaction"))
       ELSE LET s == TxSign(tx, <<>>)
                u == TxSubmit(s, netOk)
                r == err(u.err)
            IN /\ lastTx' = u
               /\ tx' = NoTx
               /\ lastIsTx' = FALSE
               /\ lastErr' = r.lastErr
               /\ ret' = r.ret
               /\ call' = c
               /\ out' = NoPayload
               /\ events' = Effects(tx, s, u)
               /\ UNCHANGED <<fake, sessionCalls, bound, other>>

\* Payload that sends the transaction like Submit
Payload_Submits ==
    LET t == getTx
        c == Call("Payload", NoKey, NoOptions)
    IN IF ~t.isMultiOp
       THEN Reject(c, errorf("can't generate payload, Start() not called"))
       ELSE LET s == TxSign(t, <<>>)
                u == TxSubmit(s, TRUE)
                r == err(u.err)
            IN /\ lastTx' = u
               /\ tx' = NoTx
               /\ lastIsTx' = FALSE
               /\ lastErr' = r.lastErr
               /\ ret' = r.ret
               /\ call' = c
               /\ out' = IF u.err = Nil THEN Encode(u) ELSE NoPayload
               /\ events' = Effects(t, s, u)
               /\ UNCHANGED <<fake, sessionCalls, bound, other>>

\* Payload that leaves ms.tx in place
Payload_KeepsTx ==
    LET t == getTx
        c == Call("Payload", NoKey, NoOptions)
    IN IF ~t.isMultiOp
       THEN Reject(c, errorf("can't generate payload, Start() not called"))
       ELSE LET p == TxPayload(t)
                r == err(p.err)
            IN /\ lastTx' = p.tx
               /\ tx' = p.tx
               /\ lastIsTx' = TRUE
               /\ lastErr' = r.lastErr
               /\ ret' = r.ret
               /\ call' = c
               /\ out' = p.payload
               /\ events' = IF t.err = Nil THEN <<SignEvent(p.tx)>> ELSE <<>>
               /\ UNCHANGED <<fake, sessionCalls, bound, other>>

Payload ==
    LET t == getTx
        c == Call("Payload", NoKey, NoOptions)
    IN IF ~t.isMultiOp
       THEN Reject(c, errorf("can't generate payload, Start() not called"))
       ELSE LET p == TxPayload(t)
                r == err(p.err)
            IN /\ lastTx' = p.tx
               /\ tx' = NoTx
               /\ lastIsTx' = FALSE
               /\ lastErr' = r.lastErr
               /\ ret' = r.ret
               /\ call' = c
               /\ out' = p.payload
               /\ events' = IF t.err = Nil THEN <<SignEvent(p.tx)>> ELSE <<>>
               /\ UNCHANGED <<fake, sessionCalls, bound, other>>

CreateKeyPair(ok) ==
    LET c == Call("CreateKeyPair", NoKey, NoOptions)
    IN IF ~ok THEN Reject(c, err("keypair error")) ELSE Reject(c, success)

\* FundAccount without the check of its source
FundAccount_NoSourceCheck(sourceSeed, addressOrSeed, o, netOk) ==
    LET c == Call("FundAccount", sourceSeed, o)
    IN IF ~ValidAddressOrSeed(addressOrSeed)
       THEN Reject(c, errorf("invalid target address or seed"))
       ELSE BuildAndSubmit(c, ApplyOptions(getTx, o), Operation("FundAccount", sourceSeed), netOk)

FundAccount(sourceSeed, addressOrSeed, o, netOk) ==
    LET c == Call("FundAccount", sourceSeed, o)
    IN IF ~ValidAddressOrSeed(sourceSeed)
       THEN Reject(c, errorf("invalid source address or seed"))
       ELSE IF ~ValidAddressOrSeed(addressOrSeed)
       THEN Reject(c, errorf("invalid target address or seed"))
       ELSE BuildAndSubmit(c, ApplyOptions(getTx, o), Operation("FundAccount", sourceSeed), netOk)

LoadAccount(address, ok) ==
    LET c == Call("LoadAccount", address, NoOptions)
    IN IF ~ValidAddressOrSeed(address)
       THEN Reject(c, errorf("can't load account: invalid address or seed"))
       ELSE IF fake THEN Reject(c, success)
       ELSE IF ~ok THEN Reject(c, wrapf("horizon error", "could not load account"))
       ELSE Reject(c, success)

Resolve(address, ok) ==
    LET c == Call("Resolve", address, NoOptions)
    IN IF address \notin {"bob*example.com"}
       THEN Reject(c, errorf("not a fedaration address"))
       ELSE IF ~ok THEN Reject(c, wrapf("federation error", "resolve error"))
       ELSE Reject(c, success)

\* PayPath that goes on without a path when the resolver finds none
PayPath_EmptyOnNoPath(o, found) ==
    IF Len(o.path) > 0
    THEN [err |-> Nil, stage |-> "", hops |-> o.path, queried |-> FALSE]
    ELSE IF ~ValidAddress(o.sourceAddress)
    THEN [err |-> "invalid address", stage |-> "not a valid source address", hops |-> <<>>,
          queried |-> FALSE]
    ELSE IF found.err # Nil
    THEN [err |-> found.err, stage |-> "path finding error", hops |-> <<>>, queried |-> TRUE]
    ELSE IF Len(found.paths) < 1
    THEN [err |-> Nil, stage |-> "", hops |-> <<>>, queried |-> TRUE]
    ELSE [err |-> Nil, stage |-> "", hops |-> found.paths[1].Hops, queried |-> TRUE]

\* PayPath that searches whenever the bundle names a search address
PayPath_PrefersSearch(o, found) ==
    IF Len(o.path) > 0 /\ o.sourceAddress = NoKey
    THEN [err |-> Nil, stage |-> "", hops |-> o.path, queried |-> FALSE]
    ELSE IF ~ValidAddress(o.sourceAddress)
    THEN [err |-> "invalid address", stage |-> "not a valid source address", hops |-> <<>>,
          queried |-> FALSE]
    ELSE IF found.err # Nil
    THEN [err |-> found.err, stage |-> "path finding error", hops |-> <<>>, queried |-> TRUE]
    ELSE IF Len(found.paths) < 1
    THEN [err |-> Nil, stage |-> "no paths found", hops |-> <<>>, queried |-> TRUE]
    ELSE [err |-> Nil, stage |-> "", hops |-> found.paths[1].Hops, queried |-> TRUE]

\* PayPath that takes the last candidate instead of the first
PayPath_LastCandidate(o, found) ==
    IF Len(o.path) > 0
    THEN [err |-> Nil, stage |-> "", hops |-> o.path, queried |-> FALSE]
    ELSE IF ~ValidAddress(o.sourceAddress)
    THEN [err |-> "invalid address", stage |-> "not a valid source address", hops |-> <<>>,
          queried |-> FALSE]
    ELSE IF found.err # Nil
    THEN [err |-> found.err, stage |-> "path finding error", hops |-> <<>>, queried |-> TRUE]
    ELSE IF Len(found.paths) < 1
    THEN [err |-> Nil, stage |-> "no paths found", hops |-> <<>>, queried |-> TRUE]
    ELSE [err |-> Nil, stage |-> "", hops |-> found.paths[Len(found.paths)].Hops,
          queried |-> TRUE]

\* the conversion path of a path payment, or the error that ends the call;
\* queried: ms.FindPaths was called
PayPath(o, found) ==
    IF Len(o.path) > 0
    THEN [err |-> Nil, stage |-> "", hops |-> o.path, queried |-> FALSE]
    ELSE IF ~ValidAddress(o.sourceAddress)
    THEN [err |-> "invalid address", stage |-> "not a valid source address", hops |-> <<>>,
          queried |-> FALSE]
    ELSE IF found.err # Nil
    THEN [err |-> found.err, stage |-> "path finding error", hops |-> <<>>, queried |-> TRUE]
    ELSE IF Len(found.paths) < 1
    THEN [err |-> Nil, stage |-> "no paths found", hops |-> <<>>, queried |-> TRUE]
    ELSE [err |-> Nil, stage |-> "", hops |-> found.paths[1].Hops, queried |-> TRUE]

Pay(sourceAddressOrSeed, targetAddress, asset, o, found, netOk) ==
    LET c == Call("Pay", sourceAddressOrSeed, o)
    IN IF ~AssetValidate(asset)
       THEN Reject(c, wrapf("invalid asset", "can't pay"))
       ELSE IF ~ValidAddressOrSeed(sourceAddressOrSeed)
       THEN Reject(c, errorf("can't pay: invalid source address or seed"))
       ELSE IF ~ValidAddressOrSeed(targetAddress)
       THEN Reject(c, errorf("can't pay: invalid address"))
       ELSE LET t == ApplyOptions(getTx, o)
                p == PayPath(o, found)
                q == IF p.queried THEN [c EXCEPT !.queried = TRUE, !.found = found] ELSE c
            IN IF o.present /\ o.sendAsset # ""
               THEN IF p.stage = "no paths found"
                    THEN RejectBuilt(q, t, errorf(p.stage))
                    ELSE IF p.stage # ""
                    THEN RejectBuilt(q, t, wrapf(p.err, p.stage))
                    ELSE BuildAndSubmit(q, t,
                            PathPayment(sourceAddressOrSeed, o.sendAsset, p.hops), netOk)
               ELSE BuildAndSubmit(c, t, Operation("Pay", sourceAddressOrSeed), netOk)

CreateTrustLine(sourceSeed, asset, o, netOk) ==
    LET c == Call("CreateTrustLine", sourceSeed, o)
    IN IF ~ValidAddressOrSeed(sourceSeed)
       THEN Reject(c, errorf("can't create trust line: invalid source address or seed"))
       ELSE IF ~AssetValidate(asset)
       THEN Reject(c, wrapf("invalid asset", "can't create trust line"))
       ELSE BuildAndSubmit(c, ApplyOptions(getTx, o), Operation("CreateTrustLine", sourceSeed), netOk)

RemoveTrustLine(sourceSeed, asset, o, netOk) ==
    LET c == Call("RemoveTrustLine", sourceSeed, o)
    IN IF ~ValidAddressOrSeed(sourceSeed)
       THEN Reject(c, errorf("can't remove trust line: invalid source address or seed"))
       ELSE IF ~AssetValidate(asset)
       THEN Reject(c, wrapf("invalid asset", "can't remove trust line"))
       ELSE BuildAndSubmit(c, ApplyOptions(getTx, o), Operation("RemoveTrustLine", sourceSeed), netOk)

AllowTrust(sourceSeed, address, o, netOk) ==
    LET c == Call("AllowTrust", sourceSeed, o)
    IN IF ~ValidAddressOrSeed(sourceSeed)
       THEN Reject(c, errorf("can't authorize trust line: invalid source address or seed"))
       ELSE IF ~ValidAddress(address)
       THEN Reject(c, errorf("can't authorize trust line: invalid account address"))
       ELSE BuildAndSubmit(c, ApplyOptions(getTx, o), Operation("AllowTrust", sourceSeed), netOk)

SetMasterWeight(sourceSeed, o, netOk) ==
    LET c == Call("SetMasterWeight", sourceSeed, o)
    IN IF ~ValidAddressOrSeed(sourceSeed)
       THEN Reject(c, errorf("can't set master weight: invalid source address or seed"))
       ELSE BuildAndSubmit(c, ApplyOptions(getTx, o), Operation("SetMasterWeight", sourceSeed), netOk)

SetFlags(sourceSeed, o, netOk) ==
    LET c == Call("SetFlags", sourceSeed, o)
    IN IF ~ValidAddressOrSeed(sourceSeed)
       THEN Reject(c, errorf("can't set flags: invalid source address or seed"))
       ELSE BuildAndSubmit(c, ApplyOptions(getTx, o), Operation("SetFlags", sourceSeed), netOk)

ClearFlags(sourceSeed, o, netOk) ==
    LET c == Call("ClearFlags", sourceSeed, o)
    IN IF ~ValidAddressOrSeed(sourceSeed)
       THEN Reject(c, errorf("can't clear flags: invalid source address or seed"))
       ELSE BuildAndSubmit(c, ApplyOptions(getTx, o), Operation("ClearFlags", sourceSeed), netOk)

SetHomeDomain(sourceSeed, o, netOk) ==
    LET c == Call("SetHomeDomain", sourceSeed, o)
    IN IF ~ValidAddressOrSeed(sourceSeed)
       THEN Reject(c, errorf("can't set home domain: invalid source address or seed"))
       ELSE BuildAndSubmit(c, ApplyOptions(getTx, o), Operation("SetHomeDomain", sourceSeed), netOk)

AddSigner(sourceSeed, signerAddress, o, netOk) ==
    LET c == Call("AddSigner", sourceSeed, o)
    IN IF ~ValidAddressOrSeed(sourceSeed)
       THEN Reject(c, errorf("can't add signer: invalid source address or seed"))
       ELSE IF ~ValidAddressOrSeed(signerAddress)
       THEN Reject(c, errorf("can't add signer: invalid signer address or seed"))
       ELSE BuildAndSubmit(c, ApplyOptions(getTx, o), Operation("AddSigner", sourceSeed), netOk)

RemoveSigner(sourceSeed, signerAddress, o, netOk) ==
    LET c == Call("RemoveSigner", sourceSeed, o)
    IN IF ~ValidAddressOrSeed(sourceSeed)
       THEN Reject(c, errorf("can't remove signer: invalid source address or seed"))
       ELSE IF ~ValidAddressOrSeed(signerAddress)
       THEN Reject(c, errorf("can't remove signer: invalid signer address or seed"))
       ELSE BuildAndSubmit(c, ApplyOptions(getTx, o), Operation("RemoveSigner", sourceSeed), netOk)

SetThresholds(sourceSeed, o, netOk) ==
    LET c == Call("SetThresholds", sourceSeed, o)
    IN IF ~ValidAddressOrSeed(sourceSeed)
       THEN Reject(c, errorf("can't set thresholds: invalid source address or seed"))
       ELSE BuildAndSubmit(c, ApplyOptions(getTx, o), Operation("SetThresholds", sourceSeed), netOk)

\* the longest data key and value SetData and ClearData let through
MaxDataLen == 64

\* SetData that takes "under 64 bytes" by the letter
SetData_Under64(sourceSeed, keyLen, valLen, o, netOk) ==
    LET c == [Call("SetData", sourceSeed, o) EXCEPT !.keyLen = keyLen, !.valLen = valLen]
    IN IF ~ValidAddressOrSeed(sourceSeed)
       THEN Reject(c, errorf("can't set thresholds: invalid source address or seed"))
       ELSE LET t == ApplyOptions(getTx, o)
            IN IF keyLen = 0
               THEN RejectBuilt(c, t, errorf("data key must not be empty"))
               ELSE IF keyLen >= MaxDataLen
               THEN RejectBuilt(c, t, errorf("data key must be under 64 bytes"))
               ELSE IF valLen >= MaxDataLen
               THEN RejectBuilt(c, t, errorf("data value must be under 64 bytes"))
               ELSE BuildAndSubmit(c, t, Operation("SetData", sourceSeed), netOk)

SetData(sourceSeed, keyLen, valLen, o, netOk) ==
    LET c == [Call("SetData", sourceSeed, o) EXCEPT !.keyLen = keyLen, !.valLen = valLen]
    IN IF ~ValidAddressOrSeed(sourceSeed)
       THEN Reject(c, errorf("can't set thresholds: invalid source address or seed"))
       ELSE LET t == ApplyOptions(getTx, o)
            IN IF keyLen = 0
               THEN RejectBuilt(c, t, errorf("data key must not be empty"))
               ELSE IF keyLen > MaxDataLen
               THEN RejectBuilt(c, t, errorf("data key must be under 64 bytes"))
               ELSE IF valLen > MaxDataLen
               THEN RejectBuilt(c, t, errorf("data value must be under 64 bytes"))
               ELSE BuildAndSubmit(c, t, Operation("SetData", sourceSeed), netOk)

ClearData(sourceSeed, keyLen, o, netOk) ==
    LET c == [Call("ClearData", sourceSeed, o) EXCEPT !.keyLen = keyLen]
    IN IF ~ValidAddressOrSeed(sourceSeed)
       THEN Reject(c, errorf("can't set thresholds: invalid source address or seed"))
       ELSE LET t == ApplyOptions(getTx, o)
            IN IF keyLen > MaxDataLen
               THEN RejectBuilt(c, t, errorf("data key must be under 64 bytes"))
               ELSE BuildAndSubmit(c, t, Operation("ClearData", sourceSeed), netOk)

\* DecodeTx: the envelope a base64 string stands for, when it stands for one
DecodeTx(b64Tx) == [err |-> IF b64Tx.valid THEN Nil ELSE "decode error", xdrTxe |-> b64Tx.env]

\* keypair.Parse takes seeds and addresses; only a seed's key pair can sign
RECURSIVE SignAll(_, _)
SignAll(signatures, seeds) ==
    IF seeds = <<>> THEN [stage |-> "", signatures |-> signatures]
    ELSE IF ~ValidAddressOrSeed(Head(seeds)) THEN [stage |-> "parse failed", signatures |-> signatures]
    ELSE IF Head(seeds) \notin Seeds THEN [stage |-> "sign failed", signatures |-> signatures]
    ELSE SignAll(Append(signatures, Head(seeds)), Tail(seeds))

\* SignTransaction that hands back what it has signed so far when a seed fails
SignTransaction_Partial(b64Tx, seeds, hashOk, marshalOk) ==
    LET c == [Call("SignTransaction", NoKey, NoOptions) EXCEPT !.b64Tx = b64Tx, !.seeds = seeds]
        d == DecodeTx(b64Tx)
        signedAll == SignAll(d.xdrTxe.signatures, seeds)
        r == IF signedAll.stage # "" THEN wrapf("keypair error", signedAll.stage) ELSE success
    IN IF d.err # Nil THEN Reject(c, wrapf(d.err, "DecodeTx"))
       ELSE IF ~hashOk THEN Reject(c, wrapf("hash error", "hash failed"))
       ELSE IF ~marshalOk THEN Reject(c, wrapf("xdr error", "could not marshal transaction"))
       ELSE /\ out' = [d.xdrTxe EXCEPT !.signatures = signedAll.signatures]
            /\ lastErr' = r.lastErr
            /\ ret' = r.ret
            /\ call' = c
            /\ events' = <<>>
            /\ sessionCalls' = SessionCalls
            /\ bound' = Bound
            /\ UNCHANGED <<tx, lastTx, lastIsTx, fake, other>>

SignTransaction(b64Tx, seeds, hashOk, marshalOk) ==
    LET c == [Call("SignTransaction", NoKey, NoOptions) EXCEPT !.b64Tx = b64Tx, !.seeds = seeds]
        d == DecodeTx(b64Tx)
        signedAll == SignAll(d.xdrTxe.signatures, seeds)
    IN IF d.err # Nil THEN Reject(c, wrapf(d.err, "DecodeTx"))
       ELSE IF ~hashOk THEN Reject(c, wrapf("hash error", "hash failed"))
       ELSE IF signedAll.stage # "" THEN Reject(c, wrapf("keypair error", signedAll.stage))
       ELSE IF ~marshalOk THEN Reject(c, wrapf("xdr error", "could not marshal transaction"))
       ELSE LET r == success
            IN /\ out' = [d.xdrTxe EXCEPT !.signatures = signedAll.signatures]
               /\ lastErr' = r.lastErr
               /\ ret' = r.ret
               /\ call' = c
               /\ events' = <<>>
               /\ sessionCalls' = SessionCalls
               /\ bound' = Bound
               /\ UNCHANGED <<tx, lastTx, lastIsTx, fake, other>>

\* SubmitTransaction that keeps the transaction it took its client from
SubmitTransaction_SavesLast(b64Tx, netOk) ==
    LET c == Call("SubmitTransaction", NoKey, NoOptions)
        r == err(IF netOk THEN Nil ELSE "network error")
    IN /\ lastErr' = r.lastErr
       /\ ret' = r.ret
       /\ call' = c
       /\ out' = NoPayload
       /\ events' = <<[e |-> "submit", keys |-> b64Tx.env.signatures, ops |-> b64Tx.env.ops]>>
       /\ sessionCalls' = SessionCalls
       /\ bound' = Bound
       /\ lastTx' = getTx
       /\ lastIsTx' = ~tx.nil
       /\ UNCHANGED <<tx, fake, other>>

SubmitTransaction(b64Tx, netOk) ==
    LET c == Call("SubmitTransaction", NoKey, NoOptions)
        r == err(IF netOk THEN Nil ELSE "network error")
    IN /\ lastErr' = r.lastErr
       /\ ret' = r.ret
       /\ call' = c
       /\ out' = NoPayload
       /\ events' = <<[e |-> "submit", keys |-> b64Tx.env.signatures, ops |-> b64Tx.env.ops]>>
       /\ sessionCalls' = SessionCalls
       /\ bound' = Bound
       /\ UNCHANGED <<tx, lastTx, lastIsTx, fake, other>>

-----------------------------------------------------------------------------
\* The calls a program may make on one handle, in any order.  Each
\* specification below lets the program make its own set of calls.

\* the session transaction holds at most n operations after the step
AtMost(n) == Len(tx'.ops) <= n

PlainEnvelope == [ops |-> <<Operation("Pay", "G1")>>, signatures |-> <<>>]

B64Inputs == {[valid |-> FALSE, env |-> NoPayload], [valid |-> TRUE, env |-> PlainEnvelope]}

SeedLists == {<<"S1">>, <<"G1">>, <<"bad">>}

\* Every method of the handle, each with a valid and an invalid source, and
\* sessions of at most MaxOpsAll operations.
AllSources == {"S1", "bad"}

Next ==
    \/ Start("S1", NoOptions)
    \/ \E netOk \in BOOLEAN : Submit(netOk)
    \/ Payload
    \/ \E ok \in BOOLEAN : CreateKeyPair(ok)
    \/ \E s \in AllSources, a \in TargetInputs, netOk \in BOOLEAN :
          FundAccount(s, a, NoOptions, netOk) /\ AtMost(MaxOpsAll)
    \/ \E a \in TargetInputs, ok \in BOOLEAN : LoadAccount(a, ok)
    \/ \E a \in {"bob*example.com", "G1"}, ok \in BOOLEAN : Resolve(a, ok)
    \/ \E s \in AllSources, a \in TargetInputs, asset \in AssetInputs, netOk \in BOOLEAN :
          Pay(s, a, asset, NoOptions, NoResult, netOk) /\ AtMost(MaxOpsAll)
    \/ \E s \in AllSources, asset \in AssetInputs, netOk \in BOOLEAN :
          CreateTrustLine(s, asset, NoOptions, netOk) /\ AtMost(MaxOpsAll)
    \/ \E s \in AllSources, asset \in AssetInputs, netOk \in BOOLEAN :
          RemoveTrustLine(s, asset, NoOptions, netOk) /\ AtMost(MaxOpsAll)
    \/ \E s \in AllSources, a \in TargetInputs, netOk \in BOOLEAN :
          AllowTrust(s, a, NoOptions, netOk) /\ AtMost(MaxOpsAll)
    \/ \E s \in AllSources, netOk \in BOOLEAN :
          SetMasterWeight(s, NoOptions, netOk) /\ AtMost(MaxOpsAll)
    \/ \E s \in AllSources, netOk \in BOOLEAN :
          SetFlags(s, NoOptions, netOk) /\ AtMost(MaxOpsAll)
    \/ \E s \in AllSources, netOk \in BOOLEAN :
          ClearFlags(s, NoOptions, netOk) /\ AtMost(MaxOpsAll)
    \/ \E s \in AllSources, netOk \in BOOLEAN :
          SetHomeDomain(s, NoOptions, netOk) /\ AtMost(MaxOpsAll)
    \/ \E s \in AllSources, a \in TargetInputs, netOk \in BOOLEAN :
          AddSigner(s, a, NoOptions, netOk) /\ AtMost(MaxOpsAll)
    \/ \E s \in AllSources, a \in TargetInputs, netOk \in BOOLEAN :
          RemoveSigner(s, a, NoOptions, netOk) /\ AtMost(MaxOpsAll)
    \/ \E s \in AllSources, netOk \in BOOLEAN :
          SetThresholds(s, NoOptions, netOk) /\ AtMost(MaxOpsAll)
    \/ \E s \in AllSources, k \in {0, 1}, netOk \in BOOLEAN :
          SetData(s, k, 1, NoOptions, netOk) /\ AtMost(MaxOpsAll)
    \/ \E s \in AllSources, k \in {1, MaxDataLen + 1}, netOk \in BOOLEAN :
          ClearData(s, k, NoOptions, netOk) /\ AtMost(MaxOpsAll)
    \/ \E b \in B64Inputs, seeds \in SeedLists, hashOk \in BOOLEAN, marshalOk \in BOOLEAN :
          SignTransaction(b, seeds, hashOk, marshalOk)
    \/ \E b \in B64Inputs, netOk \in BOOLEAN : SubmitTransaction(b, netOk)

Spec == Init /\ [][Next]_vars

\* The session life cycle with every kind of signer context: sources that are a
\* seed or an address; no bundle, a bundle without signers, a bundle
\* with a signer; sessions of at most MaxOps operations.
InitSession == Init /\ fake = FALSE

NextSession ==
    \/ \E s \in {"S1", "G1"}, o \in Bundles : Start(s, o)
    \/ \E netOk \in BOOLEAN : Submit(netOk)
    \/ Payload
    \/ \E s \in {"S1", "G1"}, o \in Bundles, netOk \in BOOLEAN :
          Pay(s, "G1", "USD", o, NoResult, netOk) /\ AtMost(MaxOps)
    \/ \E s \in {"S1", "G1"}, o \in Bundles, netOk \in BOOLEAN :
          SetHomeDomain(s, o, netOk) /\ AtMost(MaxOps)

SpecSession == InitSession /\ [][NextSession]_vars

\* Payments with a send asset: explicit hop lists, path search with every kind
\* of answer, in sessions of at most MaxOps operations and outside of them.
NextPay ==
    \/ Start("S1", NoOptions)
    \/ \E netOk \in BOOLEAN : Submit(netOk)
    \/ \E s \in AllSources, o \in {NoOptions} \cup PathBundles, found \in FindResults,
          netOk \in BOOLEAN :
          Pay(s, "G1", "USD", o, found, netOk) /\ AtMost(MaxOps)

SpecPay == InitSession /\ [][NextPay]_vars

\* Data entries: keys and values at and around the length limits, with and
\* without a bundle, in sessions of at most MaxOps operations and outside of
\* them.
KeyLens == {0, 1, MaxDataLen, MaxDataLen + 1}

ValLens == {0, MaxDataLen, MaxDataLen + 1}

DataBundles == {NoOptions, WithSigner(Opts, "S2")}

NextData ==
    \/ \E o \in {NoOptions, WithMemoText(Opts, "memo")} : Start("S1", o)
    \/ \E netOk \in BOOLEAN : Submit(netOk)
    \/ Payload
    \/ \E s \in AllSources, k \in KeyLens, v \in ValLens, o \in DataBundles, netOk \in BOOLEAN :
          SetData(s, k, v, o, netOk) /\ AtMost(MaxOps)
    \/ \E s \in AllSources, k \in {1, MaxDataLen + 1}, o \in DataBundles, netOk \in BOOLEAN :
          ClearData(s, k, o, netOk) /\ AtMost(MaxOps)

SpecData == InitSession /\ [][NextData]_vars

\* Envelopes from elsewhere: unsigned and signed ones, seed lists of every
\* length up to two with seeds, addresses and malformed strings at every
\* place, on a handle that is idle, in a session or past one.
SignedEnvelope == [ops |-> <<Operation("Pay", "G1")>>, signatures |-> <<"S2">>]

RawInputs ==
    {NoEnvelope, [valid |-> TRUE, env |-> PlainEnvelope], [valid |-> TRUE, env |-> SignedEnvelope]}

RawSeedLists ==
    {<<>>, <<"S1">>, <<"S1", "S2">>, <<"S2", "S1">>, <<"S1", "G1">>, <<"bad", "S1">>,
     <<"S1", "bad">>}

NextRaw ==
    \/ Start("S1", WithMemoText(Opts, "memo"))
    \/ \E netOk \in BOOLEAN : Submit(netOk)
    \/ \E netOk \in BOOLEAN : SetHomeDomain("S1", NoOptions, netOk) /\ AtMost(MaxOps)
    \/ \E b \in RawInputs, seeds \in RawSeedLists, hashOk \in BOOLEAN, marshalOk \in BOOLEAN :
          SignTransaction(b, seeds, hashOk, marshalOk)
    \/ \E b \in RawInputs, netOk \in BOOLEAN : SubmitTransaction(b, netOk)

SpecRaw == InitSession /\ [][NextRaw]_vars

\* Two handles made by New, called in any interleaving.  The methods above act
\* on their receiver; Switch makes the program's other handle the receiver of
\* the calls that follow.
Switch ==
    /\ other' = [tx |-> tx, lastTx |-> lastTx, lastIsTx |-> lastIsTx, lastErr |-> lastErr,
                 fake |-> fake, ret |-> ret, sessionCalls |-> sessionCalls, bound |-> bound]
    /\ tx' = other.tx
    /\ lastTx' = other.lastTx
    /\ lastIsTx' = other.lastIsTx
    /\ lastErr' = other.lastErr
    /\ fake' = other.fake
    /\ ret' = other.ret
    /\ sessionCalls' = other.sessionCalls
    /\ bound' = other.bound
    /\ call' = [Call("", NoKey, NoOptions) EXCEPT !.session = ~other.tx.nil]
    /\ out' = NoPayload
    /\ events' = <<>>

NextTwo ==
    \/ Switch
    \/ \E o \in {NoOptions, WithSigner(Opts, "S2")} : Start("S1", o)
    \/ \E netOk \in BOOLEAN : Submit(netOk)
    \/ Payload
    \/ \E s \in AllSources, netOk \in BOOLEAN :
          SetHomeDomain(s, NoOptions, netOk) /\ AtMost(MaxOpsAll)

SpecTwo == InitSession /\ [][NextTwo]_vars

-----------------------------------------------------------------------------
\* Properties

\* the fourteen methods that add an operation to a transaction
OpNames ==
    {"FundAccount", "Pay", "CreateTrustLine", "RemoveTrustLine", "AllowTrust",
     "SetMasterWeight", "SetFlags", "ClearFlags", "SetHomeDomain", "AddSigner",
     "RemoveSigner", "SetThresholds", "SetData", "ClearData"}

\* the errors of Submit and Payload called without a session
SessionStateErrors ==
    {"can't submit, not a multi-op transaction", "can't generate payload, Start() not called"}

\* the errors a transaction picks up when it is signed and submitted
TxErrors == {"signing error", "network error"}

\* the last call was an operation that passed its checks and reached tx.Build
Built == call.name \in OpNames /\ ret \in {Nil} \cup TxErrors

\* the last call closed an open session
Closed(c) == c.name \in {"Submit", "Payload"} /\ c.session

\* the operation the last call built
LastOp == lastTx.ops[Len(lastTx.ops)]

\* C1 as stated: no operation called in a session, nor Start, submits anything;
\* Submit on a session of N >= 1 operations makes exactly one submission, of a
\* transaction holding the N operations in call order.
C1_SessionAtomicity ==
    /\ (call.session /\ call.name \in OpNames) => Submissions(events) = <<>>
    /\ call.name = "Start" => Submissions(events) = <<>>
    /\ (call.name = "Submit" /\ call.session /\ Len(sessionCalls) >= 1) =>
          /\ Len(Submissions(events)) = 1
          /\ Submissions(events)[1].ops = sessionCalls

\* C1 amended: as C1, except that Submit makes no submission at all, and returns
\* the signing error, when signing with the session's signers fails.
C1_SessionAtomicityWhenSigned ==
    /\ (call.session /\ call.name \in OpNames) => Submissions(events) = <<>>
    /\ call.name = "Start" => Submissions(events) = <<>>
    /\ (call.name = "Submit" /\ call.session /\ Len(sessionCalls) >= 1) =>
          IF lastTx.err = "signing error"
          THEN Submissions(events) = <<>> /\ ret = "signing error"
          ELSE /\ Len(Submissions(events)) = 1
               /\ Submissions(events)[1].ops = sessionCalls

C1_Witness ==
    /\ call.name = "Submit" /\ call.session
    /\ Len(sessionCalls) = 2 /\ sessionCalls[1] # sessionCalls[2]
    /\ Len(Submissions(events)) = 1
    /\ Submissions(events)[1].ops = sessionCalls

\* C2 as stated: Start called while a session is open fails with an error and
\* leaves the open transaction as it was.
C2_StartWhileOpenFails ==
    [][(call'.name = "Start" /\ call'.session) => (lastErr' # Nil /\ tx' = tx)]_vars

\* C3: Submit or Payload without a session returns the no-session error, signs
\* and submits nothing, and leaves ms.tx nil and ms.lastTx as they were.
C3_NoSessionNoEffect ==
    [][(call'.name \in {"Submit", "Payload"} /\ ~call'.session) =>
          /\ ret' \in SessionStateErrors
          /\ events' = <<>>
          /\ out' = NoPayload
          /\ tx'.nil
          /\ tx' = tx
          /\ lastTx' = lastTx]_vars

C3_Witness ==
    /\ call.name = "Submit" /\ ~call.session
    /\ ret = "can't submit, not a multi-op transaction"
    /\ ~lastTx.nil /\ tx.nil

\* C4: Submit or Payload on an open session leaves the handle without a session
\* whatever it returns; a Submit or Payload right after returns the no-session
\* error; an operation right after runs in a new transaction of its own, which
\* holds that one operation.
C4_ClosedSessionIsIdle ==
    [][/\ Closed(call') => (tx'.nil /\ ~lastIsTx')
       /\ (Closed(call) /\ call'.name \in {"Submit", "Payload"}) =>
             (~call'.session /\ ret' \in SessionStateErrors)
       /\ (Closed(call) /\ call'.name \in OpNames /\ ret' \in {Nil} \cup TxErrors) =>
             /\ ~call'.session
             /\ tx'.nil
             /\ ~lastTx'.isMultiOp
             /\ lastTx'.ops = <<Operation(call'.name, call'.source)>>]_vars

C4_Witness ==
    /\ Closed(call) /\ ret = "signing error"
    /\ Len(lastTx.ops) = 2
    /\ tx.nil

\* C5: no call of a session that ends with Payload submits anything: not Start,
\* not the operations, not Payload; Payload drops the session and leaves its
\* transaction, unsubmitted, as the last transaction.
C5_PayloadNeverSubmits ==
    /\ call.name = "Start" => events = <<>>
    /\ (call.session /\ call.name \in OpNames) => Submissions(events) = <<>>
    /\ (call.name = "Payload" /\ call.session) =>
          /\ Submissions(events) = <<>>
          /\ tx.nil
          /\ lastTx.isMultiOp
          /\ ~lastTx.submitted
          /\ lastTx.ops = sessionCalls

C5_Witness ==
    /\ call.name = "Payload" /\ call.session
    /\ Len(sessionCalls) = 2
    /\ ret = Nil
    /\ out = [ops |-> sessionCalls, signatures |-> lastTx.signers]

\* C6: without a session, an operation that passes its checks runs in a new
\* transaction holding that one operation, signs it once, submits it at most
\* once (exactly once when the network refuses it), and leaves ms.tx nil.
C6_ImplicitSingleOp ==
    (Built /\ ~call.session) =>
        /\ tx.nil
        /\ ~lastTx.isMultiOp
        /\ lastTx.ops = <<Operation(call.name, call.source)>>
        /\ Len(Signings(events)) = 1
        /\ Len(Submissions(events)) <= 1
        /\ (ret = "network error" => Len(Submissions(events)) = 1)
        /\ \A i \in 1..Len(events) : events[i].ops = lastTx.ops

C6_Witness ==
    /\ Built /\ ~call.session
    /\ call.name = "SetThresholds"
    /\ ret = "network error"
    /\ Len(Submissions(events)) = 1

\* C7: an operation whose source is no address or seed returns an error and
\* submits nothing; an open session stays open with the operations it had.
C7_InvalidSourceRejected ==
    [][(call'.name \in OpNames /\ ~ValidAddressOrSeed(call'.source)) =>
          /\ ret' # Nil
          /\ events' = <<>>
          /\ tx'.nil = tx.nil
          /\ tx'.ops = tx.ops]_vars

C7_Witness ==
    /\ call.name = "SetData" /\ call.source = "bad" /\ call.session
    /\ ret # Nil
    /\ Len(tx.ops) = 1

\* C8: Err() is the error the last error-returning call returned, nil when it
\* succeeded.
C8_ErrIsLastReturn == Err = ret

C8_Witness ==
    /\ call.name = "LoadAccount" /\ ret = Nil /\ Err = Nil
    /\ lastTx.err = "network error"

\* C9: without a session, an operation with no bundle or a bundle without
\* signers is signed with its source; with a bundle that has signers it is
\* signed with those signers only, and is signed and submitted whenever those
\* signers are seeds, whatever the source is.
C9_SignerAsymmetry ==
    (Built /\ ~call.session) =>
        LET given == call.options.signerSeeds IN
        /\ Len(given) = 0 => lastTx.signers = <<call.source>>
        /\ Len(given) > 0 =>
              /\ lastTx.signers = given
              /\ CanSign(given) =>
                    /\ lastTx.signed
                    /\ Len(Submissions(events)) = 1
                    /\ ret \in {Nil, "network error"}
        /\ \A i \in 1..Len(events) : events[i].keys = lastTx.signers

C9_Witness ==
    /\ Built /\ ~call.session
    /\ call.source \in Addresses
    /\ call.options.signerSeeds = <<"S2">>
    /\ lastTx.signers = <<"S2">>
    /\ ret = Nil

\* C10: when Pay with a send asset and no hop list gets one or more candidates
\* from the resolver, the path of the payment it builds is the hop list of the
\* first candidate.
C10_FirstCandidatePath ==
    (call.name = "Pay" /\ call.queried /\ call.found.err = Nil /\ Len(call.found.paths) >= 1) =>
        /\ Built
        /\ ~lastTx.nil
        /\ LastOp.kind = "Pay"
        /\ LastOp.sendAsset = call.options.sendAsset
        /\ LastOp.path = call.found.paths[1].Hops

C10_Witness ==
    /\ call.name = "Pay" /\ call.queried
    /\ Len(call.found.paths) = 2
    /\ call.found.paths[1].Hops # call.found.paths[2].Hops
    /\ LastOp.path = <<"EUR", "USD">>
    /\ ret = Nil

\* the errors of a path search that fails
PathErrors == {"not a valid source address", "path finding error", "no paths found"}

\* the last call was a Pay that needed a path search: valid arguments, a send
\* asset and no hop list
NeedsSearch(c) ==
    /\ c.name = "Pay"
    /\ ValidAddressOrSeed(c.source)
    /\ c.options.present
    /\ c.options.sendAsset # ""
    /\ Len(c.options.path) = 0

\* the search of call c failed: bad search address, resolver error, no candidate
SearchFailed(c) ==
    \/ ~ValidAddress(c.options.sourceAddress)
    \/ c.queried /\ (c.found.err # Nil \/ Len(c.found.paths) = 0)

\* C11: a Pay whose path search fails returns the error of the search, builds
\* no operation, submits nothing and leaves the operations of an open session
\* and of the last transaction as they were; a search address that is not an
\* address ends the call before the resolver is queried.
C11_FailedSearchNoEffect ==
    [][(NeedsSearch(call') /\ SearchFailed(call')) =>
          /\ ret' \in PathErrors
          /\ events' = <<>>
          /\ tx'.nil = tx.nil
          /\ tx'.ops = tx.ops
          /\ lastTx'.ops = lastTx.ops
          /\ sessionCalls' = SessionCalls
          /\ (~ValidAddress(call'.options.sourceAddress) => ~call'.queried)]_vars

C11_Witness ==
    /\ NeedsSearch(call) /\ call.session
    /\ call.queried /\ call.found = NoResult
    /\ ret = "no paths found"
    /\ Len(tx.ops) = 1

DataErrors ==
    {"data key must not be empty", "data key must be under 64 bytes",
     "data value must be under 64 bytes"}

C14_RawBypassesBuilder ==
    [][(call'.name \in {"SignTransaction", "SubmitTransaction"}) =>
          /\ tx' = tx
          /\ lastTx' = lastTx
          /\ lastIsTx' = lastIsTx
          /\ (call'.name = "SignTransaction" => events' = <<>>)]_vars

C14_Witness ==
    /\ call.name = "SubmitTransaction" /\ call.session
    /\ ret = "network error"
    /\ Len(tx.ops) = 1 /\ tx.options.memoText = "memo"
    /\ lastIsTx

\* every seed of the list is a seed a key pair can sign with
AllSeeds(seeds) == \A i \in 1..Len(seeds) : seeds[i] \in Seeds

\* the steps of SignTransaction that may fail whatever the seeds are
StepErrors == {"hash failed", "could not marshal transaction"}

\* C15: SignTransaction returns either the envelope with the signatures it had
\* followed by one signature per seed, in the order of the seeds, and no error,
\* or an empty payload and an error; it returns the envelope whenever decoding,
\* hashing, every seed and the encoding succeed, and never otherwise.
C15_SignAllOrNothing ==
    (call.name = "SignTransaction") =>
        LET env == call.b64Tx.env
            ok == call.b64Tx.valid /\ AllSeeds(call.seeds)
        IN /\ ret = Nil =>
                 /\ ok
                 /\ out = [ops |-> env.ops, signatures |-> env.signatures \o call.seeds]
           /\ ret # Nil => out = NoPayload
           /\ (ok /\ ret \notin StepErrors) => ret = Nil
           /\ events = <<>>

C15_Witness ==
    /\ call.name = "SignTransaction" /\ ret = Nil
    /\ call.seeds = <<"S2", "S1">>
    /\ call.b64Tx.env.signatures = <<"S2">>
    /\ out.signatures = <<"S2", "S2", "S1">>

\* Submit, Payload or the submission of an operation without a session has run
\* on the transaction t: it is signed or submitted, or it carries the error
\* of the attempt
HasRun(t) == t.signed \/ t.submitted \/ t.err # Nil

\* C16: the transaction an operation is appended to (the one getTx hands out)
\* is never one that Submit, Payload or a submission has run on; every
\* operation that is built is appended to that transaction, after the
\* operations it holds; and once Submit, Payload or the submission of an
\* operation without a session has run, the handle holds the transaction as
\* its last transaction only, with the operations it had, out of getTx's
\* reach.
C16_TerminalIsFixed ==
    [][/\ ~HasRun(getTx)
       /\ (call'.name \in OpNames /\ Built') =>
             /\ Len(lastTx'.ops) = Len(getTx.ops) + 1
             /\ SubSeq(lastTx'.ops, 1, Len(getTx.ops)) = getTx.ops
       /\ Closed(call') =>
             /\ HasRun(lastTx')
             /\ lastTx'.ops = tx.ops
             /\ tx'.nil /\ ~lastIsTx'
       /\ (call'.name \in OpNames /\ Built' /\ ~call'.session) =>
             /\ HasRun(lastTx')
             /\ tx'.nil /\ ~lastIsTx'
       /\ HasRun(lastTx') => ~lastIsTx']_vars

C16_Witness ==
    /\ call.name = "Submit" /\ call.session
    /\ ret = "network error"
    /\ lastTx.submitted /\ Len(lastTx.ops) = 2
    /\ tx.nil /\ ~lastIsTx

\* the last step was a call of a method, on the handle that is the receiver
MethodCall(c) == c.name # ""

\* C17: a call on one handle leaves the other handle's open transaction, last
\* transaction and last error as they were, and signs and submits the
\* receiver's own transaction only; what a handle finds when the program comes
\* back to it is what its own last call left.
C17_HandlesIndependent ==
    [][/\ MethodCall(call') =>
             /\ other' = other
             /\ \A i \in 1..Len(events') : events'[i].ops = lastTx'.ops
       /\ ~MethodCall(call') =>
             /\ tx' = other.tx /\ lastTx' = other.lastTx /\ lastErr' = other.lastErr
             /\ other'.tx = tx /\ other'.lastTx = lastTx /\ other'.lastErr = lastErr]_vars

C17_Witness ==
    /\ call.name = "SetHomeDomain" /\ call.session /\ Built
    /\ Len(tx.ops) = 1
    /\ other.tx.nil
    /\ other.lastTx.submitted /\ ~other.lastTx.isMultiOp
    /\ other.lastErr = "network error"
    /\ lastErr = Nil

\* the signers a session is bound to at Start: the signers of Start's bundle
\* when it has any, otherwise Start's source
BoundSigners ==
    IF Len(bound.signerSeeds) > 0 THEN bound.signerSeeds ELSE <<bound.multiOpSource>>

C19_SessionSignersKept ==
    /\ (call.name = "Submit" /\ call.session) =>
          /\ lastTx.signers = BoundSigners
          /\ lastTx.options.memoText = bound.memoText
    /\ (call.name \in OpNames /\ call.session) =>
          /\ tx.options.signerSeeds = bound.signerSeeds
          /\ tx.options.memoText = bound.memoText
          /\ tx.options.multiOpSource = bound.multiOpSource

\* C20: after an operation that is built, ms.lastTx is the transaction it was
\* built on: ms.tx itself in a session, the new transaction, signed or failed,
\* otherwise; after Submit or Payload on a session it is the transaction that
\* was open; after an operation that is rejected, and after Submit or Payload
\* without a session, ms.lastTx points where it pointed before.
C20_LastTxTracking ==
    [][/\ (call'.name \in OpNames /\ Built' /\ call'.session) =>
             /\ lastIsTx'
             /\ ~tx'.nil
             /\ lastTx' = tx'
       /\ (call'.name \in OpNames /\ Built' /\ ~call'.session) =>
             /\ ~lastIsTx'
             /\ tx'.nil
             /\ ~lastTx'.nil
             /\ HasRun(lastTx')
             /\ lastTx'.ops = <<Operation(call'.name, call'.source)>>
       /\ Closed(call') =>
             /\ ~lastTx'.nil
             /\ HasRun(lastTx')
             /\ lastTx'.isMultiOp
             /\ lastTx'.ops = tx.ops
             /\ lastTx'.options = tx.options
       /\ ((call'.name \in OpNames /\ ~Built')
              \/ (call'.name \in {"Submit", "Payload"} /\ ~call'.session)) =>
             /\ lastIsTx' = lastIsTx
             /\ IF lastIsTx THEN lastTx' = tx' ELSE lastTx' = lastTx]_vars

C20_Witness ==
    /\ call.name = "SetData" /\ call.session
    /\ ValidAddressOrSeed(call.source) /\ ~Built
    /\ ret = "data key must be under 64 bytes"
    /\ lastIsTx /\ Len(lastTx.ops) = 1

\* C21 as stated: an operation that is called in a session with a bundle and
\* returns the error of one of its checks or of its path search leaves the
\* signers, the memo and the session source of the open transaction as they
\* were before the call.
C21_ErrorKeepsOptions ==
    [][(call'.name \in OpNames /\ call'.session /\ call'.options.present /\ ~Built') =>
          /\ tx'.options.signerSeeds = tx.options.signerSeeds
          /\ tx'.options.memoText = tx.options.memoText
          /\ tx'.options.multiOpSource = tx.options.multiOpSource]_vars

====
